---------------------------- MODULE Spec2Model ----------------------------
(***************************************************************************)
(* A model of rexpect's pseudo-terminal process launcher (Windows path):   *)
(* the Command builder with its CommandEnv override set, the command-line  *)
(* and environment-block encoders, Command::spawn_pty, and the PtyProcess  *)
(* handle object with the pipe ends it hands out.                          *)
(*                                                                         *)
(* Strings (OsString, Vec<u16>) are sequences of UTF-16 code units.        *)
(***************************************************************************)
EXTENDS Integers, Sequences, FiniteSets, TLC

(***************************************************************************)
(* Code units the encoders test for.                                       *)
(***************************************************************************)
NUL == 0
TAB == 9
SP == 32
QT == 34
EQ == 61
BS == 92

(***************************************************************************)
(* Bounds of the model.                                                    *)
(***************************************************************************)
\* most arguments pushed on one Command
MaxArgs == 2
\* most code units over all the arguments of one Command
MaxChars == 4

\* most environment operations issued on one Command
MaxOps == 3
\* most entries of a merged environment map given to make_envp
MaxEntries == 2
\* threads calling spawn_pty concurrently
NThreads == 2
\* most get_io_handles calls on one PtyProcess
MaxCalls == 3
\* most builder calls on one Command before it is spawned
MaxBuild == 3

VARIABLES
    \* --- Command builder and make_command_line ---
    program,      \* Command.program
    args,         \* Command.args
    cwd,          \* Command.cwd
    cmd_line,     \* result of make_command_line(program, args), or NotRun
    dirp,         \* result of make_dirp(cwd), or NotRun
    \* --- CommandEnv ---
    env,          \* Command.env: [clear, saw_path, vars]
    ambient,      \* the process environment env::vars_os() reads
    panicked,     \* the thread using the Command has panicked
    ops,          \* history: the environment operations issued, in call order
    last,         \* result of the latest capture / capture_if_changed, if any
    \* --- make_envp ---
    maybe_env,    \* the argument: None or Some(map)
    envp,         \* result of make_envp(maybe_env), or NotRun
    \* --- Command::spawn_pty, one call per thread ---
    command,      \* command[t]: the Command thread t spawns
    pc,           \* pc[t]: where thread t stands in spawn_pty
    handles,      \* handles[t]: state of each resource the call acquires
    native,       \* native[t]: the native calls the call has made
    outcome,      \* outcome[t]: what spawn_pty returned, if it has
    locals,       \* locals[t]: the values the call has computed so far
    CREATE_PROCESS_LOCK,  \* the thread holding the mutex, or NoThread
    \* --- PtyProcess, as a successful spawn_pty returned it ---
    pty_process,  \* the struct: [io, pty, proc]
    owner,        \* "live", "panicked" (a call on it panicked) or "dropped"
    taken,        \* history: the results of the get_io_handles calls
    kill_timeout, \* history: the latest argument of set_kill_timeout, if any
    held,         \* the (reader, writer) pair in the caller's hands
    os_handles,   \* state of the OS handles the spawn left open
    child,        \* the child process: "running" or "exited"
    teardown,     \* the termination calls made on the child so far
    status,       \* history: the outcome of the latest exit_status call
    used,         \* history: the pipe ends the caller has read or written
    \* --- a POSIX session: the test, the terminal, the child ---
    test_pc,      \* where tests::test_cat stands
    writer,       \* the bytes its LineWriter holds back
    buf,          \* the line its read_line returned, if it has
    master_in,    \* bytes written to the master, not yet taken by the terminal
    ldisc_line,   \* the input line the terminal is assembling
    slave_in,     \* the complete lines the child can read
    master_out,   \* bytes the terminal and the child sent towards the master
    cat,          \* the child: [pc, line, pending, status]
    sent_when,    \* history: where the child stood when the test flushed
    wait_status   \* what waitpid returned, if it has

cmdVars == <<program, args, cwd, cmd_line, dirp>>
envVars == <<env, ambient, panicked, ops, last>>
envpVars == <<maybe_env, envp>>
spawnVars == <<command, pc, handles, native, outcome, locals, CREATE_PROCESS_LOCK>>
procVars == <<pty_process, owner, taken, kill_timeout, held, os_handles, child,
              teardown, status, used>>
posixVars == <<test_pc, writer, buf, master_in, ldisc_line, slave_in, master_out,
               cat, sent_when, wait_status>>
vars_all == <<cmdVars, envVars, envpVars, spawnVars, procVars, posixVars>>

\* what the actions of one part leave alone
notCmd == <<envVars, envpVars, spawnVars, procVars, posixVars>>
notEnv == <<cmdVars, envpVars, spawnVars, procVars, posixVars>>
notEnvp == <<cmdVars, envVars, spawnVars, procVars, posixVars>>
notSpawn == <<cmdVars, envVars, envpVars, procVars, posixVars>>
notProc == <<cmdVars, envVars, envpVars, spawnVars, posixVars>>
notPosix == <<cmdVars, envVars, envpVars, spawnVars, procVars>>

NotRun == [run |-> FALSE]

(***************************************************************************)
(* Sequence helpers.                                                       *)
(***************************************************************************)
Repeat(c, n) == [i \in 1..n |-> c]

Strings(alphabet, n) == UNION {[1..k -> alphabet] : k \in 0..n}

RECURSIVE TotalLen(_)
TotalLen(list) ==
    IF list = <<>> THEN 0 ELSE Len(Head(list)) + TotalLen(Tail(list))

(***************************************************************************)
(* ensure_no_nuls: Err(InvalidInput) when a code unit is 0, Ok(str)        *)
(* otherwise.                                                              *)
(***************************************************************************)
InvalidInput == [ok |-> FALSE, kind |-> "InvalidInput"]

\* variant: `all` where the code has `any`
ensure_all_nuls(str) ==
    IF \A i \in 1..Len(str) : str[i] = NUL
    THEN InvalidInput
    ELSE [ok |-> TRUE, val |-> str]

\* lines 165-174
ensure_no_nuls(str) ==
    IF \E i \in 1..Len(str) : str[i] = NUL
    THEN InvalidInput
    ELSE [ok |-> TRUE, val |-> str]

(***************************************************************************)
(* make_command_line::append_arg.                                          *)
(***************************************************************************)
\* variant: an empty argument is left bare
needs_quote_nonempty(arg, force_quotes) ==
    \/ force_quotes
    \/ \E i \in 1..Len(arg) : arg[i] = SP \/ arg[i] = TAB

\* `quote`: forced, or the argument holds a space or a tab, or it is empty
needs_quote(arg, force_quotes) ==
    \/ force_quotes
    \/ \E i \in 1..Len(arg) : arg[i] = SP \/ arg[i] = TAB
    \/ Len(arg) = 0

\* variant: the range 0..backslashes, one backslash short before a quote
quote_escape_count_exclusive(backslashes) == backslashes

\* (0..=backslashes): the backslashes added before an internal quote
quote_escape_count(backslashes) == backslashes + 1

\* (0..backslashes): the backslashes added before the closing quote
closing_escape_count(backslashes) == backslashes

\* the `for x in arg.encode_wide()` loop from position i on; yields the
\* extended cmd and the final value of `backslashes`
RECURSIVE escape_loop(_, _, _, _)
escape_loop(arg, i, backslashes, cmd) ==
    IF i > Len(arg)
    THEN [cmd |-> cmd, backslashes |-> backslashes]
    ELSE LET x == arg[i] IN
         IF x = BS
         THEN escape_loop(arg, i + 1, backslashes + 1, Append(cmd, x))
         ELSE LET pre == IF x = QT
                         THEN cmd \o Repeat(BS, quote_escape_count(backslashes))
                         ELSE cmd
              IN escape_loop(arg, i + 1, 0, Append(pre, x))

append_arg(cmd, arg, force_quotes) ==
    IF ~ensure_no_nuls(arg).ok
    THEN InvalidInput
    ELSE LET quote  == needs_quote(arg, force_quotes)
             opened == IF quote THEN Append(cmd, QT) ELSE cmd
             body   == escape_loop(arg, 1, 0, opened)
             closed == IF quote
                       THEN Append(body.cmd \o Repeat(BS, closing_escape_count(body.backslashes)), QT)
                       ELSE body.cmd
         IN [ok |-> TRUE, val |-> closed]

\* the `for arg in args` loop of make_command_line from index i on
RECURSIVE append_args(_, _, _)
append_args(cmd, arglist, i) ==
    IF i > Len(arglist)
    THEN [ok |-> TRUE, val |-> cmd]
    ELSE LET r == append_arg(Append(cmd, SP), arglist[i], FALSE) IN
         IF r.ok THEN append_args(r.val, arglist, i + 1) ELSE r

make_command_line(prog, arglist) ==
    LET p == append_arg(<<>>, prog, TRUE) IN
    IF p.ok THEN append_args(p.val, arglist, 1) ELSE p


(***************************************************************************)
(* The native argv parser the child applies to the line (CommandLineToArgvW *)
(* rules): argv[0] ends at the next quote when it starts with one, at the   *)
(* next blank otherwise; in the rest 2n backslashes before a quote give n   *)
(* backslashes and toggle quoting, 2n+1 give n backslashes and a literal    *)
(* quote, other backslashes are literal, blanks outside quotes separate.    *)
(* It is the reference the encoder is measured against, not repository code.*)
(***************************************************************************)
IsBlank(c) == c = SP \/ c = TAB

RECURSIVE SkipBlanks(_, _)
SkipBlanks(s, i) ==
    IF i <= Len(s) /\ IsBlank(s[i]) THEN SkipBlanks(s, i + 1) ELSE i

\* first index >= i holding a quote (quoted) or a blank (~quoted), else Len(s)+1
RECURSIVE Argv0End(_, _, _)
Argv0End(s, i, quoted) ==
    IF i > Len(s) THEN i
    ELSE IF (quoted /\ s[i] = QT) \/ (~quoted /\ IsBlank(s[i])) THEN i
    ELSE Argv0End(s, i + 1, quoted)

RECURSIVE ConsecutiveQuotes(_, _, _, _)
ConsecutiveQuotes(s, i, d, qcount) ==
    IF i <= Len(s) /\ s[i] = QT
    THEN IF qcount + 1 = 3
         THEN ConsecutiveQuotes(s, i + 1, Append(d, QT), 0)
         ELSE ConsecutiveQuotes(s, i + 1, d, qcount + 1)
    ELSE [i |-> i, d |-> d, qcount |-> IF qcount = 2 THEN 0 ELSE qcount]

RECURSIVE SplitArgs(_, _, _, _, _, _)
SplitArgs(s, i, d, argv, bcount, qcount) ==
    IF i > Len(s) THEN Append(argv, d)
    ELSE LET c == s[i] IN
         IF IsBlank(c) /\ qcount = 0
         THEN LET j == SkipBlanks(s, i + 1) IN
              IF j > Len(s)
              THEN Append(argv, d)
              ELSE SplitArgs(s, j, <<>>, Append(argv, d), 0, qcount)
         ELSE IF c = BS
         THEN SplitArgs(s, i + 1, Append(d, BS), argv, bcount + 1, qcount)
         ELSE IF c = QT
         THEN LET even == bcount % 2 = 0
                  drop == IF even THEN bcount \div 2 ELSE (bcount \div 2) + 1
                  kept == SubSeq(d, 1, Len(d) - drop)
                  d1   == IF even THEN kept ELSE Append(kept, QT)
                  q1   == IF even THEN qcount + 1 ELSE qcount
                  r    == ConsecutiveQuotes(s, i + 1, d1, q1)
              IN SplitArgs(s, r.i, r.d, argv, 0, r.qcount)
         ELSE SplitArgs(s, i + 1, Append(d, c), argv, 0, qcount)

CommandLineToArgvW(s) ==
    LET quoted == Len(s) > 0 /\ s[1] = QT
        first  == IF quoted THEN 2 ELSE 1
        e      == Argv0End(s, first, quoted)
        argv0  == SubSeq(s, first, e - 1)
        j      == SkipBlanks(s, IF e > Len(s) THEN e ELSE e + 1)
    IN IF j > Len(s) THEN <<argv0>> ELSE SplitArgs(s, j, <<>>, <<argv0>>, 0, 0)

(***************************************************************************)
(* The escaping rule stated over backslash runs: a run of n backslashes     *)
(* before a quote becomes 2n+1, a run of n ending a quoted token becomes    *)
(* 2n, every other run and character is kept.                               *)
(***************************************************************************)
RECURSIVE RunLen(_, _)
RunLen(arg, i) ==
    IF i <= Len(arg) /\ arg[i] = BS THEN 1 + RunLen(arg, i + 1) ELSE 0

RECURSIVE EscapedByRuns(_, _, _)
EscapedByRuns(arg, i, quoted) ==
    IF i > Len(arg) THEN <<>>
    ELSE LET n == RunLen(arg, i)
             j == i + n
         IN IF j > Len(arg)
            THEN Repeat(BS, IF quoted THEN 2 * n ELSE n)
            ELSE IF arg[j] = QT
            THEN Repeat(BS, 2 * n + 1) \o <<QT>> \o EscapedByRuns(arg, j + 1, quoted)
            ELSE Repeat(BS, n) \o <<arg[j]>> \o EscapedByRuns(arg, j + 1, quoted)

TokenByRuns(arg, force_quotes) ==
    LET quoted == needs_quote(arg, force_quotes)
        wrap   == IF quoted THEN <<QT>> ELSE <<>>
    IN wrap \o EscapedByRuns(arg, 1, quoted) \o wrap

RECURSIVE LineByRuns(_, _)
LineByRuns(line, arglist) ==
    IF arglist = <<>> THEN line
    ELSE LineByRuns(line \o <<SP>> \o TokenByRuns(Head(arglist), FALSE), Tail(arglist))

(***************************************************************************)
(* CommandEnv: a set of changes to an environment.                         *)
(* Maps are functions from keys (strings) to values; Option<OsString> is   *)
(* None or Some(v).                                                        *)
(***************************************************************************)
None == [some |-> FALSE]
Some(v) == [some |-> TRUE, v |-> v]

EmptyMap == << >>
MapInsert(m, k, v) == [x \in DOMAIN m \cup {k} |-> IF x = k THEN v ELSE m[x]]
MapRemove(m, k) == [x \in DOMAIN m \ {k} |-> m[x]]

Panic == [ok |-> FALSE, kind |-> "panic"]
Ok(v) == [ok |-> TRUE, val |-> v]

\* "PATH"
PATH == <<80, 65, 84, 72>>

\* CommandEnv::default()
CommandEnv_default == [clear |-> FALSE, saw_path |-> FALSE, vars |-> EmptyMap]

\* an OsString with its ASCII letters made upper case
make_ascii_uppercase(k) ==
    [i \in 1..Len(k) |-> IF k[i] >= 97 /\ k[i] <= 122 THEN k[i] - 32 ELSE k[i]]

\* variant: the conversion wraps the string as it is
EnvKey_from_wrap(k) == Ok(k)

\* variant: the body left in the comment, the key in upper case
EnvKey_from_uppercase(k) == Ok(make_ascii_uppercase(k))

\* impl From<OsString> for EnvKey: the body is unimplemented!(), a panic
EnvKey_from(k) == Panic

\* variant: the process environment is read whatever the clear flag says
vars_os_always(e, amb) == DOMAIN amb

\* `if !self.clear { for (k, v) in env::vars_os()`: the keys of the process
\* environment capture reads
vars_os_read(e, amb) == IF e.clear THEN {} ELSE DOMAIN amb

\* CommandEnv::capture: the environment with the changes applied, or a panic
\* out of a key conversion
capture(e, amb) ==
    LET keys == vars_os_read(e, amb)
        conv == [k \in keys |-> EnvKey_from(k)]
    IN IF \E k \in keys : ~conv[k].ok
       THEN Panic
       ELSE LET base == [ek \in {conv[k].val : k \in keys} |->
                            amb[CHOOSE k \in keys : conv[k].val = ek]]
                kept == {k \in DOMAIN base : k \notin DOMAIN e.vars}
                sets == {k \in DOMAIN e.vars : e.vars[k].some}
            IN Ok([k \in kept \cup sets |->
                      IF k \in sets THEN e.vars[k].v ELSE base[k]])

\* variant: only the recorded changes are looked at, the clear flag is not
is_unchanged_vars_only(e) == DOMAIN e.vars = {}

\* CommandEnv::is_unchanged
is_unchanged(e) == ~e.clear /\ DOMAIN e.vars = {}

\* CommandEnv::capture_if_changed: None, or Some(capture())
capture_if_changed(e, amb) ==
    IF is_unchanged(e)
    THEN Ok(None)
    ELSE LET c == capture(e, amb) IN IF c.ok THEN Ok(Some(c.val)) ELSE c

\* CommandEnv::maybe_saw_path
maybe_saw_path(e, key) ==
    IF ~e.saw_path /\ key = PATH THEN [e EXCEPT !.saw_path = TRUE] ELSE e

\* CommandEnv::set: the changed CommandEnv, and whether the call panicked
set(e, key, value) ==
    LET e1 == maybe_saw_path(e, key)
        ek == EnvKey_from(key)
    IN IF ~ek.ok
       THEN [panic |-> TRUE, env |-> e1]
       ELSE [panic |-> FALSE,
             env |-> [e1 EXCEPT !.vars = MapInsert(@, ek.val, Some(value))]]

\* CommandEnv::remove
remove(e, key) ==
    LET e1 == maybe_saw_path(e, key) IN
    IF e1.clear
    THEN [panic |-> FALSE, env |-> [e1 EXCEPT !.vars = MapRemove(@, key)]]
    ELSE LET ek == EnvKey_from(key) IN
         IF ~ek.ok
         THEN [panic |-> TRUE, env |-> e1]
         ELSE [panic |-> FALSE,
               env |-> [e1 EXCEPT !.vars = MapInsert(@, ek.val, None)]]

\* variant: the entries are dropped, the flag is left as it was
clear_vars_only(e) == [e EXCEPT !.vars = EmptyMap]

\* CommandEnv::clear
clear(e) == [e EXCEPT !.clear = TRUE, !.vars = EmptyMap]

\* the `for (key, val) in vars` loop of Command::envs from index i on
RECURSIVE set_all(_, _, _)
set_all(e, pairs, i) ==
    IF i > Len(pairs)
    THEN [panic |-> FALSE, env |-> e]
    ELSE LET r == set(e, pairs[i][1], pairs[i][2]) IN
         IF r.panic THEN r ELSE set_all(r.env, pairs, i + 1)

(***************************************************************************)
(* The environment operations of the Command builder, and the two queries  *)
(* spawn_pty and its callers make.                                         *)
(***************************************************************************)
\* "A", "a", "PATH"
EnvKeys == {<<65>>, <<97>>, PATH}
EnvValues == {<<49>>, <<50>>}
AmbientEnvs == {EmptyMap, (<<65>> :> <<49>>), (<<65>> :> <<49>>) @@ (PATH :> <<50>>)}

NoQuery == [kind |-> "none"]

\* the parts a specification does not exercise stay as constructed
CmdIdle ==
    /\ program = <<97>>
    /\ args = <<>>
    /\ cwd = None
    /\ cmd_line = NotRun
    /\ dirp = NotRun

EnvpIdle ==
    /\ maybe_env = None
    /\ envp = NotRun

Threads == 1..NThreads
NoThread == 0

SpawnIdle ==
    /\ command = <<>>
    /\ pc = <<>>
    /\ handles = <<>>
    /\ native = <<>>
    /\ outcome = <<>>
    /\ locals = <<>>
    /\ CREATE_PROCESS_LOCK = NoThread

\* set_kill_timeout has not been called
Unset == [called |-> FALSE]

ProcIdle ==
    /\ pty_process = <<>>
    /\ owner = "none"
    /\ taken = <<>>
    /\ kill_timeout = Unset
    /\ held = None
    /\ os_handles = <<>>
    /\ child = "none"
    /\ teardown = {}
    /\ status = NotRun
    /\ used = {}

\* a child that has not been forked
NoChild == [pc |-> "none", line |-> <<>>, pending |-> {}, status |-> "none"]

PosixIdle ==
    /\ test_pc = "new"
    /\ writer = <<>>
    /\ buf = NotRun
    /\ master_in = <<>>
    /\ ldisc_line = <<>>
    /\ slave_in = <<>>
    /\ master_out = <<>>
    /\ cat = NoChild
    /\ sent_when = NotRun
    /\ wait_status = NotRun

EnvIdle ==
    /\ env = CommandEnv_default
    /\ ambient = EmptyMap
    /\ panicked = FALSE
    /\ ops = <<>>
    /\ last = NoQuery

\* Command::new: env is Default::default()
EnvInit ==
    /\ CmdIdle
    /\ EnvpIdle
    /\ SpawnIdle
    /\ ProcIdle
    /\ PosixIdle
    /\ env = CommandEnv_default
    /\ ambient \in AmbientEnvs
    /\ panicked = FALSE
    /\ ops = <<>>
    /\ last = NoQuery

OpSet(k, v) == [op |-> "set", key |-> k, val |-> v]
OpRemove(k) == [op |-> "remove", key |-> k]
OpClear == [op |-> "clear"]

Apply(r, issued) ==
    /\ env' = r.env
    /\ panicked' = r.panic
    /\ ops' = ops \o issued
    /\ last' = NoQuery
    /\ UNCHANGED <<ambient, notEnv>>

\* Command::env(key, val)
Command_env(key, val) ==
    /\ ~panicked
    /\ Len(ops) < MaxOps
    /\ Apply(set(env, key, val), <<OpSet(key, val)>>)

\* Command::envs(vars)
Command_envs(pairs) ==
    /\ ~panicked
    /\ Len(ops) + Len(pairs) <= MaxOps
    /\ Apply(set_all(env, pairs, 1),
             [i \in 1..Len(pairs) |-> OpSet(pairs[i][1], pairs[i][2])])

\* Command::env_remove(key)
Command_env_remove(key) ==
    /\ ~panicked
    /\ Len(ops) < MaxOps
    /\ Apply(remove(env, key), <<OpRemove(key)>>)

\* Command::env_clear()
Command_env_clear ==
    /\ ~panicked
    /\ Len(ops) < MaxOps
    /\ Apply([panic |-> FALSE, env |-> clear(env)], <<OpClear>>)

\* a call of self.env.capture()
Capture ==
    /\ ~panicked
    /\ LET r == capture(env, ambient) IN
       /\ last' = [kind |-> "capture", res |-> r]
       /\ panicked' = ~r.ok
    /\ UNCHANGED <<env, ambient, ops, notEnv>>

\* a call of self.env.capture_if_changed()
CaptureIfChanged ==
    /\ ~panicked
    /\ LET r == capture_if_changed(env, ambient) IN
       /\ last' = [kind |-> "capture_if_changed", res |-> r]
       /\ panicked' = ~r.ok
    /\ UNCHANGED <<env, ambient, ops, notEnv>>

EnvNext ==
    \/ \E k \in EnvKeys, v \in EnvValues : Command_env(k, v)
    \/ \E p1, p2 \in EnvKeys \X EnvValues : Command_envs(<<p1, p2>>)
    \/ \E k \in EnvKeys : Command_env_remove(k)
    \/ Command_env_clear
    \/ Capture
    \/ CaptureIfChanged

SpecEnv == EnvInit /\ [][EnvNext]_vars_all

\* the environment the recorded operations describe: replay them in call
\* order on the ambient snapshot
RECURSIVE Replay(_, _)
Replay(m, history) ==
    IF history = <<>> THEN m
    ELSE LET o == Head(history) IN
         Replay(CASE o.op = "set" -> MapInsert(m, o.key, o.val)
                  [] o.op = "remove" -> MapRemove(m, o.key)
                  [] OTHER -> EmptyMap,
                Tail(history))

\* C2: every environment operation returns, and capture() returns exactly
\* the replay of the issued operations on the ambient snapshot.
C2_CaptureIsReplay ==
    /\ ~panicked
    /\ last.kind = "capture" => last.res.val = Replay(ambient, ops)

C20_CaptureIsPure ==
    [][last'.kind = "capture" =>
          /\ env' = env
          /\ ambient' = ambient
          /\ ops' = ops
          /\ last'.res = capture([clear |-> env.clear, saw_path |-> ~env.saw_path,
                                  vars |-> env.vars], ambient)
          /\ env.clear => \A amb \in AmbientEnvs : last'.res = capture(env, amb)
          /\ last.kind = "capture" => last'.res = last.res]_vars_all

\* capture() has returned the empty map for a cleared CommandEnv that saw a
\* PATH removal, while the process environment holds variables
C20_Witness ==
    /\ last.kind = "capture"
    /\ last.res = Ok(EmptyMap)
    /\ env.clear
    /\ env.saw_path
    /\ ambient # EmptyMap

\* no two keys are equal once case is folded
NoCaseDuplicates(keys) ==
    \A k1, k2 \in keys : make_ascii_uppercase(k1) = make_ascii_uppercase(k2) => k1 = k2

\* the entries the issued operations describe when a key names the same
\* entry whatever its case: [clear, vars] with folded keys
RECURSIVE Recorded(_, _)
Recorded(e, history) ==
    IF history = <<>> THEN e
    ELSE LET o == Head(history)
             k == make_ascii_uppercase(o.key)
         IN Recorded(CASE o.op = "set" ->
                          [e EXCEPT !.vars = MapInsert(@, k, Some(o.val))]
                       [] o.op = "remove" ->
                          IF e.clear THEN [e EXCEPT !.vars = MapRemove(@, k)]
                          ELSE [e EXCEPT !.vars = MapInsert(@, k, None)]
                       [] OTHER -> [clear |-> TRUE, vars |-> EmptyMap],
                     Tail(history))

\* the latest environment operation (not a capture) panicked
OperationPanicked == panicked /\ last = NoQuery

\* C12: every sequence of env / envs / env_remove / env_clear operations can
\* be carried out, and after it neither vars nor the map capture() returned
\* holds two keys that are equal up to case: the entries of vars are, up to
\* case, the entries the operations named, each with the latest value given
\* to it under any casing.
C12_NoCaseDuplicateKeys ==
    /\ ~OperationPanicked
    /\ NoCaseDuplicates(DOMAIN env.vars)
    /\ LET r == Recorded([clear |-> FALSE, vars |-> EmptyMap], ops) IN
       /\ {make_ascii_uppercase(k) : k \in DOMAIN env.vars} = DOMAIN r.vars
       /\ \A k \in DOMAIN env.vars : env.vars[k] = r.vars[make_ascii_uppercase(k)]
    /\ (last.kind = "capture" /\ last.res.ok) => NoCaseDuplicates(DOMAIN last.res.val)

(***************************************************************************)
(* make_envp: the environment block handed to CreateProcessW.              *)
(***************************************************************************)
\* derived Ord of EnvKey: OsString order, code unit by code unit
RECURSIVE EnvKey_lt(_, _)
EnvKey_lt(a, b) ==
    IF a = <<>> THEN b # <<>>
    ELSE IF b = <<>> THEN FALSE
    ELSE IF a[1] # b[1] THEN a[1] < b[1]
    ELSE EnvKey_lt(Tail(a), Tail(b))

\* the entry a BTreeMap iteration yields first
first_key(keys) == CHOOSE k \in keys : \A o \in keys \ {k} : EnvKey_lt(k, o)

\* variant: no terminator after the last entry
end_of_block_missing(blk) == blk

\* blk.push(0) after the loop
end_of_block(blk) == Append(blk, NUL)

\* the `for (k, v) in env` loop over the entries not yet visited
RECURSIVE envp_loop(_, _, _)
envp_loop(m, keys, blk) ==
    IF keys = {}
    THEN Ok(end_of_block(blk))
    ELSE LET k == first_key(keys) IN
         IF ~ensure_no_nuls(k).ok \/ ~ensure_no_nuls(m[k]).ok
         THEN InvalidInput
         ELSE envp_loop(m, keys \ {k}, blk \o k \o <<EQ>> \o m[k] \o <<NUL>>)

\* make_envp: Ok((pointer, data)) or Err(InvalidInput)
make_envp(me) ==
    IF me.some
    THEN LET r == envp_loop(me.v, DOMAIN me.v, <<>>) IN
         IF r.ok THEN Ok([null_ptr |-> FALSE, data |-> r.val]) ELSE r
    ELSE Ok([null_ptr |-> TRUE, data |-> <<>>])

EnvpKeys == {<<65>>, <<65, 66>>, <<66>>, <<65, NUL>>}
EnvpValues == {<<>>, <<49>>, <<NUL>>}

EnvpMaps ==
    UNION {[d -> EnvpValues] : d \in {x \in SUBSET EnvpKeys : Cardinality(x) <= MaxEntries}}

EnvpInit ==
    /\ CmdIdle
    /\ EnvIdle
    /\ SpawnIdle
    /\ ProcIdle
    /\ PosixIdle
    /\ maybe_env \in {None} \cup {Some(m) : m \in EnvpMaps}
    /\ envp = NotRun

\* make_envp(maybe_env), as spawn_pty calls it
MakeEnvp ==
    /\ envp = NotRun
    /\ envp' = [run |-> TRUE, res |-> make_envp(maybe_env)]
    /\ UNCHANGED <<maybe_env, notEnvp>>

EnvpNext == MakeEnvp

SpecEnvp == EnvpInit /\ [][EnvpNext]_vars_all

HasNul(s) == \E i \in 1..Len(s) : s[i] = NUL

NulFree(m) == \A k \in DOMAIN m : ~HasNul(k) /\ ~HasNul(m[k])

\* the keys of m as the one strictly ascending sequence
Ascending(m) ==
    CHOOSE ks \in [1..Cardinality(DOMAIN m) -> DOMAIN m] :
        \A i, j \in DOMAIN ks : i < j => EnvKey_lt(ks[i], ks[j])

RECURSIVE Flatten(_)
Flatten(seqs) ==
    IF seqs = <<>> THEN <<>> ELSE Head(seqs) \o Flatten(Tail(seqs))

BlockOf(m) ==
    LET ks == Ascending(m) IN
    Flatten([i \in DOMAIN ks |-> ks[i] \o <<EQ>> \o m[ks[i]] \o <<NUL>>]) \o <<NUL>>

\* C9: for a present map make_envp returns (always, when no key or value
\* holds a nul) a non-null pointer to the KEY=VALUE nul entries in ascending
\* key order followed by one more nul; for an absent map an empty buffer and
\* a null pointer.
C9_EnvBlock ==
    envp.run =>
        /\ ~maybe_env.some =>
              envp.res = Ok([null_ptr |-> TRUE, data |-> <<>>])
        /\ (maybe_env.some /\ NulFree(maybe_env.v)) => envp.res.ok
        /\ (maybe_env.some /\ envp.res.ok) =>
              envp.res.val = [null_ptr |-> FALSE, data |-> BlockOf(maybe_env.v)]

\* a block built from two entries whose keys share a prefix
C9_Witness ==
    /\ envp.run
    /\ maybe_env = Some((<<65, 66>> :> <<49>>) @@ (<<65>> :> <<>>))
    /\ envp.res.ok

(***************************************************************************)
(* make_dirp: the working directory handed to CreateProcessW.              *)
(***************************************************************************)
make_dirp(d) ==
    IF d.some
    THEN IF ensure_no_nuls(d.v).ok
         THEN Ok([null_ptr |-> FALSE, data |-> Append(d.v, NUL)])
         ELSE InvalidInput
    ELSE Ok([null_ptr |-> TRUE, data |-> <<>>])

(***************************************************************************)
(* Command::spawn_pty, called by several threads, each on its own Command.  *)
(* A resource is "none" until acquired, then "open", then "closed".         *)
(***************************************************************************)
NoHandles ==
    [input_tx |-> "none", input_rx |-> "none",
     output_tx |-> "none", output_rx |-> "none",
     pty |-> "none", tal |-> "none", hThread |-> "none", hProcess |-> "none"]

\* lines 233-234 with pipe::unnamed: which end of which pipe each local is;
\* CreatePipe(&mut rx, &mut tx) makes rx the read end (Receiver) and tx the
\* write end (Sender)
PipeEnd ==
    [input_tx  |-> [pipe |-> "input",  end |-> "write"],
     input_rx  |-> [pipe |-> "input",  end |-> "read"],
     output_tx |-> [pipe |-> "output", end |-> "write"],
     output_rx |-> [pipe |-> "output", end |-> "read"]]

\* the locals whose type has a Drop impl: the pipe ends (Sender, Receiver)
\* and the attribute-list buffer (Box<[u64]>)
Droppable == {"input_tx", "input_rx", "output_tx", "output_rx", "tal"}

\* variant: the ends moved into the PtyProcess are dropped as well
drop_locals_and_moved(h, moved) ==
    [r \in DOMAIN h |->
        IF r \in Droppable /\ h[r] = "open" THEN "closed" ELSE h[r]]

\* leaving spawn_pty: every droppable local still owned is dropped; the raw
\* HANDLE values (pty_handle, pi.hProcess, pi.hThread) have no destructor
drop_locals(h, moved) ==
    [r \in DOMAIN h |->
        IF r \in Droppable /\ h[r] = "open" /\ r \notin moved THEN "closed" ELSE h[r]]

OsError == [ok |-> FALSE, kind |-> "OsError"]

\* ';'
SEMICOLON == 59
\* ".exe"
DotExe == <<46, 101, 120, 101>>
\* the system directory, "s"
SystemDir == <<115>>
\* the files on disk: d\a.exe and s\a.exe
ExistingFiles == {<<100, BS, 97>> \o DotExe, SystemDir \o <<BS, 97>> \o DotExe}

\* the locals of spawn_pty before their statements have run
NoLocals ==
    [maybe_env |-> NotRun, program |-> NotRun, console |-> NotRun,
     boxed_tal |-> NotRun, cmd_str |-> NotRun, envp |-> NotRun, dirp |-> NotRun]

\* a local once its statement has run
Bound(v) == [run |-> TRUE, val |-> v]

\* the commands the threads spawn: plain; with arguments, a cleared
\* environment and a working directory; with a nul in the program, in an
\* argument, in the working directory; a program that is in no directory
SpawnCommands ==
    {[program |-> <<97>>, args |-> <<>>, env |-> CommandEnv_default, cwd |-> None],
     [program |-> <<97>>, args |-> << <<98>> >>, env |-> clear(CommandEnv_default),
      cwd |-> Some(<<99>>)],
     [program |-> <<97, NUL>>, args |-> <<>>, env |-> CommandEnv_default, cwd |-> None],
     [program |-> <<97>>, args |-> << <<NUL>> >>, env |-> CommandEnv_default, cwd |-> None],
     [program |-> <<97>>, args |-> <<>>, env |-> CommandEnv_default, cwd |-> Some(<<NUL>>)],
     [program |-> <<98>>, args |-> <<>>, env |-> clear(CommandEnv_default), cwd |-> None]}

SpawnInit ==
    /\ CmdIdle
    /\ EnvpIdle
    /\ ProcIdle
    /\ PosixIdle
    /\ env = CommandEnv_default
    /\ ambient = (<<65>> :> <<49>>)
    /\ panicked = FALSE
    /\ ops = <<>>
    /\ last = NoQuery
    /\ command \in [Threads -> SpawnCommands]
    /\ pc = [t \in Threads |-> "start"]
    /\ handles = [t \in Threads |-> NoHandles]
    /\ native = [t \in Threads |-> {}]
    /\ outcome = [t \in Threads |-> NotRun]
    /\ locals = [t \in Threads |-> NoLocals]
    /\ CREATE_PROCESS_LOCK = NoThread

\* thread t goes on to `next`, its resources now h and its locals l, having
\* made the calls
StepWith(t, next, h, calls, l) ==
    /\ pc' = [pc EXCEPT ![t] = next]
    /\ handles' = [handles EXCEPT ![t] = h]
    /\ native' = [native EXCEPT ![t] = @ \cup calls]
    /\ locals' = [locals EXCEPT ![t] = l]
    /\ UNCHANGED <<command, outcome, CREATE_PROCESS_LOCK, notSpawn>>

\* a step that binds no local
Step(t, next, h, calls) == StepWith(t, next, h, calls, locals[t])

\* thread t returns Err(e) from spawn_pty through `?`: its locals are dropped
Fail(t, e, h, calls) ==
    /\ pc' = [pc EXCEPT ![t] = "returned"]
    /\ handles' = [handles EXCEPT ![t] = drop_locals(h, {})]
    /\ native' = [native EXCEPT ![t] = @ \cup calls]
    /\ outcome' = [outcome EXCEPT ![t] = [run |-> TRUE, res |-> e]]
    /\ UNCHANGED <<command, locals, notSpawn>>

\* self.env.capture_if_changed() in thread t
spawn_maybe_env(t) == capture_if_changed(command[t].env, ambient)

\* env::split_paths: the directories of a PATH value, separated by ';'
RECURSIVE split_paths(_, _, _)
split_paths(v, i, dir) ==
    IF i > Len(v) THEN <<dir>>
    ELSE IF v[i] = SEMICOLON THEN <<dir>> \o split_paths(v, i + 1, <<>>)
    ELSE split_paths(v, i + 1, Append(dir, v[i]))

\* path.join(program).with_extension(EXE_EXTENSION), for a plain file name
exe_in(dir, prog) == dir \o <<BS>> \o prog \o DotExe

\* the `for path in env::split_paths(&v)` loop from index i on: the first
\* candidate fs::metadata finds, or None
RECURSIVE lookup(_, _, _)
lookup(dirs, i, prog) ==
    IF i > Len(dirs) THEN None
    ELSE IF exe_in(dirs[i], prog) \in ExistingFiles THEN Some(exe_in(dirs[i], prog))
    ELSE lookup(dirs, i + 1, prog)

\* lines 210-224: the program found in the child's PATH, if the merged
\* environment has one
resolve_program(me, prog) ==
    IF me.some /\ PATH \in DOMAIN me.v
    THEN lookup(split_paths(me.v[PATH], 1, <<>>), 1, prog)
    ELSE None

\* line 253: program.as_ref().unwrap_or(&self.program)
spawn_program(t) ==
    LET found == locals[t].program.val IN
    IF found.some THEN found.v ELSE command[t].program

\* lines 206-224: capture the environment; look the program up in the
\* child's PATH when the merged environment has one
CaptureEnv(t) ==
    /\ pc[t] = "start"
    /\ LET me == spawn_maybe_env(t) IN
       IF me.ok
       THEN StepWith(t, "input_pipe", handles[t], {},
                     [locals[t] EXCEPT
                         !.maybe_env = Bound(me.val),
                         !.program = Bound(resolve_program(me.val, command[t].program))])
       ELSE /\ pc' = [pc EXCEPT ![t] = "panicked"]
            /\ UNCHANGED <<command, handles, native, outcome, locals,
                           CREATE_PROCESS_LOCK, notSpawn>>

\* line 233: pipe::unnamed()
CreateInputPipe(t) ==
    /\ pc[t] = "input_pipe"
    /\ \E ok \in BOOLEAN :
        IF ok
        THEN Step(t, "output_pipe",
                  [handles[t] EXCEPT !.input_tx = "open", !.input_rx = "open"],
                  {"CreatePipe"})
        ELSE Fail(t, OsError, handles[t], {"CreatePipe"})
           /\ UNCHANGED CREATE_PROCESS_LOCK

\* line 234: pipe::unnamed()
CreateOutputPipe(t) ==
    /\ pc[t] = "output_pipe"
    /\ \E ok \in BOOLEAN :
        IF ok
        THEN Step(t, "pseudo_console",
                  [handles[t] EXCEPT !.output_tx = "open", !.output_rx = "open"],
                  {"CreatePipe"})
        ELSE Fail(t, OsError, handles[t], {"CreatePipe"})
           /\ UNCHANGED CREATE_PROCESS_LOCK

\* variant: the pseudo-console is created on the parent-side ends
console_ends_swapped == [hInput |-> "output_rx", hOutput |-> "input_tx"]

\* lines 240-241: the ends handed to CreatePseudoConsole as hInput, hOutput
console_ends == [hInput |-> "input_rx", hOutput |-> "output_tx"]

\* lines 235-248: CreatePseudoConsole on input_rx and output_tx
CreatePseudoConsole(t) ==
    /\ pc[t] = "pseudo_console"
    /\ \E ok \in BOOLEAN :
        IF ok
        THEN StepWith(t, "make_boxed_tal", [handles[t] EXCEPT !.pty = "open"],
                      {"CreatePseudoConsole"},
                      [locals[t] EXCEPT !.console = Bound(console_ends)])
        ELSE Fail(t, OsError, handles[t], {"CreatePseudoConsole"})
           /\ UNCHANGED CREATE_PROCESS_LOCK

\* line 249: make_boxed_tal(): size query, buffer, initialisation
MakeBoxedTal(t) ==
    /\ pc[t] = "make_boxed_tal"
    /\ \E ok \in BOOLEAN :
        IF ok
        THEN StepWith(t, "fill_tal", [handles[t] EXCEPT !.tal = "open"],
                      {"InitializeProcThreadAttributeList"},
                      [locals[t] EXCEPT !.boxed_tal = Bound(None)])
        ELSE Fail(t, OsError, [handles[t] EXCEPT !.tal = "open"],
                  {"InitializeProcThreadAttributeList"})
           /\ UNCHANGED CREATE_PROCESS_LOCK

\* variant: the result of UpdateProcThreadAttribute is not looked at
fill_tal_unchecked(tal_buf, pty, r) == Ok(IF r THEN Some(pty) ELSE tal_buf)

\* lines 484-502: fill_tal registers the pseudo-console as the attribute of
\* the list; r is whether UpdateProcThreadAttribute returned non-zero
fill_tal(tal_buf, pty, r) == IF r THEN Ok(Some(pty)) ELSE OsError

\* line 250: fill_tal(&mut boxed_tal, pty_handle)?
FillTal(t) ==
    /\ pc[t] = "fill_tal"
    /\ \E r \in BOOLEAN :
        LET filled == fill_tal(locals[t].boxed_tal.val, "pty", r) IN
        IF filled.ok
        THEN StepWith(t, "command_line", handles[t], {"UpdateProcThreadAttribute"},
                      [locals[t] EXCEPT !.boxed_tal = Bound(filled.val)])
        ELSE Fail(t, filled, handles[t], {"UpdateProcThreadAttribute"})
           /\ UNCHANGED CREATE_PROCESS_LOCK

\* lines 253-255: make_command_line(program, &self.args)?
EncodeCommandLine(t) ==
    /\ pc[t] = "command_line"
    /\ LET r == make_command_line(spawn_program(t), command[t].args) IN
       IF r.ok
       THEN StepWith(t, "envp", handles[t], {},
                     [locals[t] EXCEPT !.cmd_str = Bound(Append(r.val, NUL))])
       ELSE Fail(t, r, handles[t], {}) /\ UNCHANGED CREATE_PROCESS_LOCK

\* line 264: make_envp(maybe_env)?
EncodeEnvp(t) ==
    /\ pc[t] = "envp"
    /\ LET r == make_envp(locals[t].maybe_env.val) IN
       IF r.ok
       THEN StepWith(t, "dirp", handles[t], {},
                     [locals[t] EXCEPT !.envp = Bound(r.val)])
       ELSE Fail(t, r, handles[t], {}) /\ UNCHANGED CREATE_PROCESS_LOCK

\* line 265: make_dirp(self.cwd.as_ref())?
EncodeDirp(t) ==
    /\ pc[t] = "dirp"
    /\ LET r == make_dirp(command[t].cwd) IN
       IF r.ok
       THEN StepWith(t, "lock", handles[t], {},
                     [locals[t] EXCEPT !.dirp = Bound(r.val)])
       ELSE Fail(t, r, handles[t], {}) /\ UNCHANGED CREATE_PROCESS_LOCK

\* variant: the lock is taken without waiting for its holder
lock_is_free_unchecked(holder) == TRUE

\* Mutex::lock returns once no thread holds the mutex
lock_is_free(holder) == holder = NoThread

\* lines 271-273: CREATE_PROCESS_LOCK.lock()
AcquireLock(t) ==
    /\ pc[t] = "lock"
    /\ lock_is_free(CREATE_PROCESS_LOCK)
    /\ CREATE_PROCESS_LOCK' = t
    /\ pc' = [pc EXCEPT ![t] = "call_CreateProcessW"]
    /\ UNCHANGED <<command, handles, native, outcome, locals, notSpawn>>

\* lines 275-288: the thread enters CreateProcessW
EnterCreateProcess(t) ==
    /\ pc[t] = "call_CreateProcessW"
    /\ pc' = [pc EXCEPT ![t] = "in_CreateProcessW"]
    /\ native' = [native EXCEPT ![t] = @ \cup {"CreateProcessW"}]
    /\ UNCHANGED <<command, handles, outcome, locals, CREATE_PROCESS_LOCK, notSpawn>>

\* variant: the guard is not dropped (mem::forget), the mutex stays locked
forget_guard(holder, t) == holder

\* the MutexGuard `_guard` of thread t goes away: by drop(_guard) at line
\* 294, or with the other locals when `?` returns the error at line 291
drop_guard(holder, t) == IF holder = t THEN NoThread ELSE holder

\* lines 290-292: CreateProcessW returned 0; the guard is dropped with the
\* other locals as the error is returned
CreateProcessFails(t) ==
    /\ pc[t] = "in_CreateProcessW"
    /\ Fail(t, OsError, handles[t], {})
    /\ CREATE_PROCESS_LOCK' = drop_guard(CREATE_PROCESS_LOCK, t)

\* the directories CreateProcessW looks in for a file name given without a
\* directory (lpApplicationName is null): those of the calling process, here
\* the system directory and then the caller's own PATH
os_search_dirs(amb) ==
    <<SystemDir>> \o (IF PATH \in DOMAIN amb THEN split_paths(amb[PATH], 1, <<>>)
                      ELSE <<>>)

\* the file CreateProcessW runs for the first token of the command line
os_finds(amb, prog) ==
    \/ prog \in ExistingFiles
    \/ lookup(os_search_dirs(amb), 1, prog).some

\* CreateProcessW returned non-zero: it found the file to run, and pi holds
\* a process and a thread handle
CreateProcessSucceeds(t) ==
    /\ pc[t] = "in_CreateProcessW"
    /\ os_finds(ambient, spawn_program(t))
    /\ pc' = [pc EXCEPT ![t] = "created"]
    /\ handles' = [handles EXCEPT ![t] =
                      [@ EXCEPT !.hProcess = "open", !.hThread = "open"]]
    /\ UNCHANGED <<command, native, outcome, locals, CREATE_PROCESS_LOCK, notSpawn>>

\* PtyProcess::init(pty_read, pty_write, pty, proc)
PtyProcess_init(pty_read, pty_write, pty_handle, proc_handle) ==
    [io |-> Some(<<pty_read, pty_write>>), pty |-> pty_handle, proc |-> proc_handle]

\* lines 294-298: drop(_guard); CloseHandle(pi.hThread);
\* Ok(PtyProcess::init(output_rx, input_tx, pty_handle, proc_handle)); the
\* locals not moved into the PtyProcess are dropped
ReturnPtyProcess(t) ==
    /\ pc[t] = "created"
    /\ pc' = [pc EXCEPT ![t] = "returned"]
    /\ CREATE_PROCESS_LOCK' = drop_guard(CREATE_PROCESS_LOCK, t)
    /\ handles' = [handles EXCEPT ![t] =
                      drop_locals([@ EXCEPT !.hThread = "closed"],
                                  {"output_rx", "input_tx"})]
    /\ native' = [native EXCEPT ![t] = @ \cup {"CloseHandle"}]
    /\ outcome' = [outcome EXCEPT ![t] =
                      [run |-> TRUE,
                       res |-> Ok(PtyProcess_init("output_rx", "input_tx",
                                                  "pty", "hProcess"))]]
    /\ UNCHANGED <<command, locals, notSpawn>>

Next ==
    \/ \E t \in Threads : CaptureEnv(t)
    \/ \E t \in Threads : CreateInputPipe(t)
    \/ \E t \in Threads : CreateOutputPipe(t)
    \/ \E t \in Threads : CreatePseudoConsole(t)
    \/ \E t \in Threads : MakeBoxedTal(t)
    \/ \E t \in Threads : FillTal(t)
    \/ \E t \in Threads : EncodeCommandLine(t)
    \/ \E t \in Threads : EncodeEnvp(t)
    \/ \E t \in Threads : EncodeDirp(t)
    \/ \E t \in Threads : AcquireLock(t)
    \/ \E t \in Threads : EnterCreateProcess(t)
    \/ \E t \in Threads : CreateProcessFails(t)
    \/ \E t \in Threads : CreateProcessSucceeds(t)
    \/ \E t \in Threads : ReturnPtyProcess(t)

Spec == SpawnInit /\ [][Next]_vars_all

(***************************************************************************)
(* PtyProcess (Windows): the object a successful spawn_pty returns, the     *)
(* calls its owner makes on it, its drop, and the child it stands for.      *)
(***************************************************************************)
HandleAlreadyTaken == [ok |-> FALSE, kind |-> "IO handles already taken"]

\* variant: the pair is handed out and kept
Option_keep(io) == io

\* Option::take: the slot is left None
Option_take(io) == None

\* Option::chain_err: the value, or the error
chain_err(io, e) == IF io.some THEN Ok(io.v) ELSE e

KillTimeouts == {None, Some(0), Some(1)}

\* the state a successful spawn_pty leaves: the parent-side pipe ends, the
\* pseudo-console and the process handle are open; the child has started
ProcInit ==
    /\ CmdIdle
    /\ EnvIdle
    /\ EnvpIdle
    /\ SpawnIdle
    /\ PosixIdle
    /\ pty_process = PtyProcess_init("output_rx", "input_tx", "pty", "hProcess")
    /\ owner = "live"
    /\ taken = <<>>
    /\ kill_timeout = Unset
    /\ held = None
    /\ os_handles = [h \in {"output_rx", "input_tx", "pty", "hProcess"} |-> "open"]
    /\ child \in {"running", "exited"}
    /\ teardown = {}
    /\ status = NotRun
    /\ used = {}

\* PtyProcess::get_io_handles
get_io_handles ==
    /\ owner = "live"
    /\ Len(taken) < MaxCalls
    /\ LET r == chain_err(pty_process.io, HandleAlreadyTaken) IN
       /\ taken' = Append(taken, r)
       /\ held' = IF r.ok THEN Some(r.val) ELSE held
    /\ pty_process' = [pty_process EXCEPT !.io = Option_take(@)]
    /\ UNCHANGED <<owner, kill_timeout, os_handles, child, teardown, status, used,
                   notProc>>

\* PtyProcess::set_kill_timeout: the body is empty, the argument is not kept
set_kill_timeout(timeout_ms) ==
    /\ owner = "live"
    /\ kill_timeout' = timeout_ms
    /\ UNCHANGED <<pty_process, owner, taken, held, os_handles, child,
                   teardown, status, used, notProc>>

\* the body of PtyProcess::exit_status: unimplemented!(), a panic
exit_status_body == Panic

\* PtyProcess::exit_status, called while the child is in any state
exit_status ==
    /\ owner = "live"
    /\ LET r == exit_status_body IN
       /\ status' = [run |-> TRUE, res |-> r, running |-> child = "running"]
       /\ owner' = IF r.ok THEN owner ELSE "panicked"
    /\ UNCHANGED <<pty_process, taken, kill_timeout, held, os_handles, child,
                   teardown, used, notProc>>

\* CloseHandle on a handle in state st: an open handle is closed; closing a
\* handle that is not open is a second (or stray) close
CloseHandle(st) == IF st = "open" THEN "closed" ELSE "closed again"

\* the handles a set of pipe ends closes when it is dropped
CloseAll(hs, ends) ==
    [h \in DOMAIN hs |-> IF h \in ends THEN CloseHandle(hs[h]) ELSE hs[h]]

\* ReadFile / WriteFile / FlushFileBuffers on a handle in state st
UseHandle(st) == IF st = "open" THEN "open" ELSE "used after close"

\* the PtyProcess goes out of scope (also while a panic unwinds): there is no
\* Drop impl, so its fields are dropped: a pair still in `io` closes its two
\* handles (Drop for Receiver / Sender); pty and proc are raw HANDLE values
Drop_PtyProcess ==
    /\ owner \in {"live", "panicked"}
    /\ owner' = "dropped"
    /\ os_handles' = IF pty_process.io.some
                     THEN CloseAll(os_handles, {pty_process.io.v[1], pty_process.io.v[2]})
                     ELSE os_handles
    /\ UNCHANGED <<pty_process, taken, kill_timeout, held, child, teardown, status,
                   used, notProc>>

\* the caller drops the pair it took
Drop_held ==
    /\ held.some
    /\ held' = None
    /\ os_handles' = CloseAll(os_handles, {held.v[1], held.v[2]})
    /\ UNCHANGED <<pty_process, owner, taken, kill_timeout, child, teardown, status,
                   used, notProc>>

\* Read for Receiver: the caller reads from the reader it took
Receiver_read ==
    /\ held.some
    /\ used' = used \cup {held.v[1]}
    /\ os_handles' = [os_handles EXCEPT ![held.v[1]] = UseHandle(@)]
    /\ UNCHANGED <<pty_process, owner, taken, kill_timeout, held, child, teardown,
                   status, notProc>>

\* Write for Sender: the caller writes to (or flushes) the writer it took
Sender_write ==
    /\ held.some
    /\ used' = used \cup {held.v[2]}
    /\ os_handles' = [os_handles EXCEPT ![held.v[2]] = UseHandle(@)]
    /\ UNCHANGED <<pty_process, owner, taken, kill_timeout, held, child, teardown,
                   status, notProc>>

\* the child process ends on its own
ChildExits ==
    /\ child = "running"
    /\ child' = "exited"
    /\ UNCHANGED <<pty_process, owner, taken, kill_timeout, held, os_handles,
                   teardown, status, used, notProc>>

ProcNext ==
    \/ get_io_handles
    \/ \E ms \in KillTimeouts : set_kill_timeout(ms)
    \/ exit_status
    \/ Drop_PtyProcess
    \/ Drop_held
    \/ Receiver_read
    \/ Sender_write
    \/ ChildExits

SpecProc == ProcInit /\ [][ProcNext]_vars_all

\* C1: the first get_io_handles call returns the (reader, writer) pair and
\* every later one fails with "handles already taken"; the io slot is
\* present exactly until the first call, whatever set_kill_timeout calls
\* come in between.
C1_HandlesTakenOnce ==
    owner # "none" =>
        /\ \A i \in 1..Len(taken) :
              taken[i] = IF i = 1 THEN Ok(<<"output_rx", "input_tx">>)
                         ELSE HandleAlreadyTaken
        /\ pty_process.io.some <=> taken = <<>>

\* a second get_io_handles call has failed after a set_kill_timeout call
C1_Witness ==
    /\ Len(taken) >= 2
    /\ kill_timeout = Some(1)

\* C7: once a PtyProcess is dropped, a graceful termination request has been
\* made on the child (its exit is never observed before), the forceful kill
\* only with a timeout configured, and no live or unreaped child remains.
C7_DropTerminatesChild ==
    owner = "dropped" =>
        /\ "terminate" \in teardown
        /\ "kill" \in teardown => (kill_timeout # Unset /\ kill_timeout.some)
        /\ child # "running"
        /\ os_handles["hProcess"] = "closed"

\* C15: when the destruction of a PtyProcess has returned with a kill
\* timeout configured, the child has exited (on its own, or force-killed
\* after the timeout) and has been reaped; with the timeout None it has
\* returned only once the child had exited.
C15_DropReturnsWithChildGone ==
    (owner = "dropped" /\ kill_timeout # Unset) =>
        /\ child = "exited"
        /\ kill_timeout.some => os_handles["hProcess"] = "closed"

\* C16: an exit_status call returns a value, never a panic; it is None when
\* the child was running at the call; the call leaves the PtyProcess, the
\* handles and the child as they were.
C16_ExitStatusReturnsValue ==
    [][status' # status =>
          /\ status'.res.ok
          /\ status'.running => status'.res.val = None
          /\ owner' = owner
          /\ UNCHANGED <<pty_process, os_handles, child, held>>]_vars_all

(***************************************************************************)
(* Properties of spawn_pty.                                                 *)
(***************************************************************************)
CommandHasNul(c) ==
    \/ HasNul(c.program)
    \/ \E i \in 1..Len(c.args) : HasNul(c.args[i])
    \/ \E k \in DOMAIN c.env.vars :
          HasNul(k) \/ (c.env.vars[k].some /\ HasNul(c.env.vars[k].v))
    \/ c.cwd.some /\ HasNul(c.cwd.v)

Returned(t) == pc[t] = "returned"

\* C5: a spawn of a Command holding a nul fails, and when the InvalidInput
\* error is returned no native call has been made and no pipe, no
\* pseudo-console and no attribute list has been created.
C5_NulFailsBeforeNativeCalls ==
    \A t \in DOMAIN pc :
        (Returned(t) /\ CommandHasNul(command[t])) =>
            /\ ~outcome[t].res.ok
            /\ outcome[t].res = InvalidInput =>
                  (native[t] = {} /\ handles[t] = NoHandles)

\* C6: when spawn_pty returns an error, every resource it acquired (the four
\* pipe handles, the pseudo-console, the attribute-list buffer) is released.
C6_ErrorReleasesEverything ==
    \A t \in DOMAIN pc :
        (Returned(t) /\ ~outcome[t].res.ok) =>
            \A r \in DOMAIN handles[t] : handles[t][r] # "open"

\* C19: after a successful spawn the pseudo-console was created on the read
\* end of the input pipe and the write end of the output pipe; the returned
\* PtyProcess holds the read end of the output pipe as reader, the write end
\* of the input pipe as writer, the pseudo-console handle and the process
\* handle, all still open; the thread handle has been closed.
C19_SuccessfulSpawnHoldings ==
    \A t \in DOMAIN pc :
        (Returned(t) /\ outcome[t].res.ok) =>
            LET p == outcome[t].res.val
                c == locals[t].console.val
            IN /\ PipeEnd[c.hInput] = [pipe |-> "input", end |-> "read"]
               /\ PipeEnd[c.hOutput] = [pipe |-> "output", end |-> "write"]
               /\ p.io.some
               /\ PipeEnd[p.io.v[1]] = [pipe |-> "output", end |-> "read"]
               /\ PipeEnd[p.io.v[2]] = [pipe |-> "input", end |-> "write"]
               /\ p.pty = "pty"
               /\ p.proc = "hProcess"
               /\ \A h \in {p.io.v[1], p.io.v[2], p.pty, p.proc} : handles[t][h] = "open"
               /\ handles[t]["hThread"] = "closed"

\* a spawn with arguments and a working directory has returned a PtyProcess
C19_Witness ==
    \E t \in DOMAIN pc :
        /\ Returned(t)
        /\ outcome[t].res.ok
        /\ command[t].cwd.some
        /\ "CreateProcessW" \in native[t]

\* C8: at most one thread is inside CreateProcessW at any time.
C8_OneThreadInCreateProcess ==
    \A t1, t2 \in DOMAIN pc :
        (pc[t1] = "in_CreateProcessW" /\ pc[t2] = "in_CreateProcessW") => t1 = t2

\* one thread is inside CreateProcessW while another waits for the lock
C8_Witness ==
    \E t1, t2 \in DOMAIN pc :
        /\ pc[t1] = "in_CreateProcessW"
        /\ pc[t2] = "lock"

(***************************************************************************)
(* Command builder (program, args) and the command-line encoder.           *)
(***************************************************************************)
ArgAlphabet == {97, SP, TAB, QT, BS}

\* program names: plain, with a space, ending in a backslash, holding a
\* quote, holding a nul
Programs == {<<97>>, <<97, SP, 97>>, <<97, BS>>, <<97, QT, 97>>, <<97, NUL>>}

\* arguments: every string over the alphabet, and two holding a nul
Arguments(n) == Strings(ArgAlphabet, n) \cup {s \in {<<NUL>>, <<97, NUL>>} : Len(s) <= n}

\* Command::new(program)
CmdInit ==
    /\ program \in Programs
    /\ args = <<>>
    /\ cwd = None
    /\ cmd_line = NotRun
    /\ dirp = NotRun
    /\ EnvIdle
    /\ EnvpIdle
    /\ SpawnIdle
    /\ ProcIdle
    /\ PosixIdle

\* Command::arg(arg)
Command_arg(a) ==
    /\ cmd_line = NotRun
    /\ Len(args) < MaxArgs
    /\ args' = Append(args, a)
    /\ UNCHANGED <<program, cwd, cmd_line, dirp>>
    /\ UNCHANGED notCmd

\* make_command_line(&self.program, &self.args), as spawn_pty calls it when
\* no program was resolved from PATH
MakeCommandLine ==
    /\ cmd_line = NotRun
    /\ cmd_line' = [run |-> TRUE, res |-> make_command_line(program, args)]
    /\ UNCHANGED <<program, args, cwd, dirp>>
    /\ UNCHANGED notCmd

CmdNext ==
    \/ \E a \in Arguments(MaxChars - TotalLen(args)) : Command_arg(a)
    \/ MakeCommandLine

SpecCmd == CmdInit /\ [][CmdNext]_vars_all

Encoded == cmd_line.run /\ cmd_line.res.ok

HasQuote(s) == \E i \in 1..Len(s) : s[i] = QT

\* C4: the native parser applied to make_command_line(program, args) returns
\* exactly the original argument list, same length and same order.
C4_RoundTripAnyProgram ==
    Encoded => Tail(CommandLineToArgvW(cmd_line.res.val)) = args

\* The round trip of the argument list does hold whenever the program name
\* holds no double quote.
RoundTripWithoutQuoteInProgram ==
    (Encoded /\ ~HasQuote(program))
        => Tail(CommandLineToArgvW(cmd_line.res.val)) = args

\* C10: each token of the line is escaped by runs: N backslashes before a
\* quote come out as 2N+1, N backslashes ending a quoted token as 2N, and
\* all else is copied unchanged.
C10_EscapingByRuns ==
    Encoded => cmd_line.res.val = LineByRuns(TokenByRuns(program, TRUE), args)

\* a quoted token ending in a backslash and a run of one before a quote
C10_Witness ==
    /\ Encoded
    /\ args = << <<SP, BS>>, <<BS, QT>> >>

(***************************************************************************)
(* The shape of the line: which tokens are wrapped, and how they are joined. *)
(***************************************************************************)
\* the backslashes that end s
RECURSIVE TrailingRun(_)
TrailingRun(s) ==
    IF s # <<>> /\ s[Len(s)] = BS THEN 1 + TrailingRun(SubSeq(s, 1, Len(s) - 1)) ELSE 0

\* the token opens with a quote and ends with a quote that no odd run of
\* backslashes escapes
Wrapped(tok) ==
    /\ Len(tok) >= 2
    /\ tok[1] = QT
    /\ tok[Len(tok)] = QT
    /\ TrailingRun(SubSeq(tok, 2, Len(tok) - 1)) % 2 = 0

\* the token neither opens with a quote nor ends with an unescaped one
Bare(tok) ==
    /\ tok # <<>> => tok[1] # QT
    /\ (tok # <<>> /\ tok[Len(tok)] = QT) =>
          TrailingRun(SubSeq(tok, 1, Len(tok) - 1)) % 2 = 1

\* the argument is empty or holds a space or a tab
EmptyOrBlank(arg) == arg = <<>> \/ \E i \in 1..Len(arg) : arg[i] \in {SP, TAB}

\* the tokens joined with one space between neighbours
RECURSIVE JoinSpaced(_)
JoinSpaced(toks) ==
    IF Len(toks) = 0 THEN <<>>
    ELSE IF Len(toks) = 1 THEN toks[1]
    ELSE toks[1] \o <<SP>> \o JoinSpaced(Tail(toks))

\* the token of each element, encoded on its own
TokensOf(prog, arglist) ==
    [i \in 1..(Len(arglist) + 1) |->
        IF i = 1 THEN append_arg(<<>>, prog, TRUE).val
        ELSE append_arg(<<>>, arglist[i - 1], FALSE).val]

\* C11: the program token is always wrapped in double quotes; an argument
\* token is wrapped exactly when the argument is empty or holds a space or a
\* tab, and is bare otherwise; the line is the tokens in the order program,
\* arg1, ..., argN with exactly one space between neighbours and nothing
\* after the last token.
C11_QuotingAndJoining ==
    Encoded =>
        LET toks == TokensOf(program, args) IN
        /\ cmd_line.res.val = JoinSpaced(toks)
        /\ Wrapped(toks[1])
        /\ \A i \in 1..Len(args) :
              /\ Wrapped(toks[i + 1]) <=> EmptyOrBlank(args[i])
              /\ ~EmptyOrBlank(args[i]) => Bare(toks[i + 1])

\* a line with an empty argument (wrapped) and a bare one ending in a quote
C11_Witness ==
    /\ Encoded
    /\ program = <<97, SP, 97>>
    /\ args = << <<>>, <<97, BS, QT>> >>

(***************************************************************************)
(* The life of one Command: it is built, PtyProcess::new consumes it and    *)
(* runs spawn_pty, and the PtyProcess returned is used and dropped.         *)
(***************************************************************************)
LifePrograms == {<<97>>, <<97, NUL>>}
LifeArgs == {<<98>>, <<NUL>>}
LifeArgLists == {<<>>, << <<98>>, <<98, SP>> >>}
LifeDirs == {<<99>>, <<NUL>>}
\* values given to env / envs: "1" and "1;d"
LifeValues == {<<49>>, <<49, SEMICOLON, 100>>}
\* the process environment: empty, or PATH=d
LifeAmbients == {EmptyMap, (PATH :> <<100>>)}

\* Command::new(program), nothing spawned yet
LifeInit ==
    /\ program \in LifePrograms
    /\ args = <<>>
    /\ cwd = None
    /\ cmd_line = NotRun
    /\ dirp = NotRun
    /\ env = CommandEnv_default
    /\ ambient \in LifeAmbients
    /\ panicked = FALSE
    /\ ops = <<>>
    /\ last = NoQuery
    /\ EnvpIdle
    /\ SpawnIdle
    /\ ProcIdle
    /\ PosixIdle

\* the builder calls made so far (a repeated current_dir counts once)
BuilderCalls == Len(ops) + Len(args) + (IF cwd.some THEN 1 ELSE 0)

\* the Command is still in its builder's hands
Building ==
    /\ command = <<>>
    /\ ~panicked
    /\ BuilderCalls < MaxBuild

\* Command::args(args): self.arg(arg) for each
Command_args(list) ==
    /\ cmd_line = NotRun
    /\ Len(args) + Len(list) <= MaxArgs
    /\ args' = args \o list
    /\ UNCHANGED <<program, cwd, cmd_line, dirp>>
    /\ UNCHANGED notCmd

\* Command::current_dir(dir)
Command_current_dir(dir) ==
    /\ cmd_line = NotRun
    /\ cwd' = Some(dir)
    /\ UNCHANGED <<program, args, cmd_line, dirp>>
    /\ UNCHANGED notCmd

\* PtyProcess::new(command): command.spawn_pty() is entered
PtyProcess_new ==
    /\ command = <<>>
    /\ ~panicked
    /\ command' = <<[program |-> program, args |-> args, env |-> env, cwd |-> cwd]>>
    /\ pc' = <<"start">>
    /\ handles' = <<NoHandles>>
    /\ native' = <<{}>>
    /\ outcome' = <<NotRun>>
    /\ locals' = <<NoLocals>>
    /\ UNCHANGED <<CREATE_PROCESS_LOCK, notSpawn>>

\* PtyProcess::new returns Ok: the caller holds the PtyProcess, the handles
\* the spawn left are the process's handles, the child is running
PtyProcess_new_returns(t) ==
    /\ pc[t] = "returned"
    /\ outcome[t].res.ok
    /\ owner = "none"
    /\ owner' = "live"
    /\ pty_process' = outcome[t].res.val
    /\ os_handles' = handles[t]
    /\ child' = "running"
    /\ UNCHANGED <<taken, kill_timeout, held, teardown, status, used, notProc>>

LifeNext ==
    \/ Building /\ \E a \in LifeArgs : Command_arg(a)
    \/ Building /\ \E list \in LifeArgLists : Command_args(list)
    \/ Building /\ \E k \in EnvKeys, v \in LifeValues : Command_env(k, v)
    \/ Building /\ \E p1, p2 \in EnvKeys \X LifeValues : Command_envs(<<p1, p2>>)
    \/ Building /\ \E k \in EnvKeys : Command_env_remove(k)
    \/ Building /\ Command_env_clear
    \/ Building /\ \E d \in LifeDirs : Command_current_dir(d)
    \/ PtyProcess_new
    \/ \E t \in DOMAIN pc : CaptureEnv(t)
    \/ \E t \in DOMAIN pc : CreateInputPipe(t)
    \/ \E t \in DOMAIN pc : CreateOutputPipe(t)
    \/ \E t \in DOMAIN pc : CreatePseudoConsole(t)
    \/ \E t \in DOMAIN pc : MakeBoxedTal(t)
    \/ \E t \in DOMAIN pc : FillTal(t)
    \/ \E t \in DOMAIN pc : EncodeCommandLine(t)
    \/ \E t \in DOMAIN pc : EncodeEnvp(t)
    \/ \E t \in DOMAIN pc : EncodeDirp(t)
    \/ \E t \in DOMAIN pc : AcquireLock(t)
    \/ \E t \in DOMAIN pc : EnterCreateProcess(t)
    \/ \E t \in DOMAIN pc : CreateProcessFails(t)
    \/ \E t \in DOMAIN pc : CreateProcessSucceeds(t)
    \/ \E t \in DOMAIN pc : ReturnPtyProcess(t)
    \/ \E t \in DOMAIN pc : PtyProcess_new_returns(t)
    \/ get_io_handles
    \/ \E ms \in KillTimeouts : set_kill_timeout(ms)
    \/ exit_status
    \/ Drop_PtyProcess
    \/ Drop_held
    \/ Receiver_read
    \/ Sender_write
    \/ ChildExits

SpecLife == LifeInit /\ [][LifeNext]_vars_all

\* C13: a builder operation (arg, args, env, envs, env_remove, env_clear,
\* current_dir) called in any builder state with any input completes without
\* a panic, and changes nothing but the builder it is called on: the process
\* environment, and everything a spawn or a PtyProcess holds, stay as they
\* were.
C13_BuilderOpsNeverFail ==
    [][(command = <<>> /\ command' = <<>>) =>
          /\ ~panicked'
          /\ UNCHANGED <<ambient, envpVars, spawnVars, procVars>>]_vars_all

\* the environment the issued overrides produce from the process environment
MergedEnv == Replay(ambient, ops)

\* the candidate in the first directory, in PATH order, that holds the
\* executable; the program as given when no directory does
FirstInPath(dirs, prog) ==
    LET cand(i) == dirs[i] \o <<BS>> \o prog \o DotExe
        hits == {i \in 1..Len(dirs) : cand(i) \in ExistingFiles}
    IN IF hits = {} THEN prog
       ELSE cand(CHOOSE i \in hits : \A j \in hits : i <= j)

\* C14: a Command whose overrides leave a PATH in the merged environment is
\* built and spawned with, in its command line, the program found in the
\* first directory of that PATH that holds the executable; with no
\* environment operation recorded no lookup is done and the command line
\* carries the program as given.
C14_ProgramResolution ==
    /\ (ops # <<>> /\ PATH \in DOMAIN MergedEnv) => ~panicked
    /\ \A t \in DOMAIN pc :
          locals[t].cmd_str.run =>
              /\ (ops # <<>> /\ PATH \in DOMAIN MergedEnv) =>
                    locals[t].cmd_str.val =
                        Append(make_command_line(
                                   FirstInPath(split_paths(MergedEnv[PATH], 1, <<>>),
                                               program),
                                   args).val, NUL)
              /\ ops = <<>> =>
                    /\ locals[t].program.val = None
                    /\ locals[t].cmd_str.val =
                           Append(make_command_line(program, args).val, NUL)

\* the state of every handle the spawn has acquired, before and after the
\* PtyProcess is handed to the caller
HandleStates ==
    IF owner # "none" THEN os_handles
    ELSE IF pc = <<>> THEN NoHandles
    ELSE handles[1]

\* the pair is inside a PtyProcess that has not been dropped
PtyProcessOwnsPair == owner \in {"live", "panicked"} /\ pty_process.io.some

\* C17: no pipe end is closed twice or used after it was closed; when spawn
\* returns the child-side ends are closed, and on an error return the
\* parent-side ends as well; the parent-side pair is never owned by the
\* PtyProcess and the caller at once, it belongs to the PtyProcess until the
\* first get_io_handles call and to the caller after it, and its two
\* handles are open exactly as long as its owner has not been dropped.
C17_PipeEndsClosedOnce ==
    LET hs == HandleStates IN
    /\ \A h \in DOMAIN PipeEnd : hs[h] \in {"none", "open", "closed"}
    /\ \A t \in DOMAIN pc :
          Returned(t) =>
              /\ hs["input_rx"] # "open" /\ hs["output_tx"] # "open"
              /\ ~outcome[t].res.ok => (hs["input_tx"] # "open" /\ hs["output_rx"] # "open")
              /\ (outcome[t].res.ok /\ owner = "none") =>
                    (hs["input_tx"] = "open" /\ hs["output_rx"] = "open")
    /\ owner # "none" =>
          /\ ~(PtyProcessOwnsPair /\ held.some)
          /\ PtyProcessOwnsPair => taken = <<>>
          /\ held.some => taken # <<>>
          /\ \A h \in {"output_rx", "input_tx"} :
                hs[h] = "open" <=> (PtyProcessOwnsPair \/ held.some)
          /\ \A h \in used : hs[h] = "open" \/ ~held.some

\* the caller took the pair, used both ends and dropped them, and the
\* PtyProcess has been dropped as well
C17_Witness ==
    /\ owner = "dropped"
    /\ taken # <<>>
    /\ ~held.some
    /\ used = {"output_rx", "input_tx"}
    /\ os_handles["output_rx"] = "closed"
    /\ os_handles["input_rx"] = "closed"

\* C18: once the PtyProcess is dropped its process handle and its
\* pseudo-console handle are closed, and once the retrieved pipe ends are
\* gone too no handle the spawn acquired is left open.
C18_OwnedHandlesClosedOnDrop ==
    owner = "dropped" =>
        /\ os_handles[pty_process.pty] = "closed"
        /\ os_handles[pty_process.proc] = "closed"
        /\ ~held.some => \A h \in DOMAIN os_handles : os_handles[h] # "open"


(***************************************************************************)
(* The order of spawn_pty's steps, and the scope of CREATE_PROCESS_LOCK.    *)
(***************************************************************************)

\* what thread t has produced so far, in the order spawn_pty produces it:
\* the input pipe, the output pipe, the pseudo-console, the attribute list,
\* the pseudo-console registered in it, the command line, the environment
\* block, the cwd buffer
Produced(t) ==
    << handles[t].input_tx # "none" /\ handles[t].input_rx # "none",
       handles[t].output_tx # "none" /\ handles[t].output_rx # "none",
       handles[t].pty # "none" /\ locals[t].console.run,
       locals[t].boxed_tal.run,
       locals[t].boxed_tal.run /\ locals[t].boxed_tal.val = Some("pty"),
       locals[t].cmd_str.run,
       locals[t].envp.run,
       locals[t].dirp.run >>

AllProduced(t) == \A i \in DOMAIN Produced(t) : Produced(t)[i]

\* C25: each of the two pipes, the pseudo-console, the attribute list, its
\* pseudo-console attribute, the command line, the environment block and the
\* cwd buffer is produced only once all the ones before it are; CreateProcessW
\* is called only once all of them are; and a spawn that returns without
\* having produced all of them returns an error, no PtyProcess, and has not
\* called CreateProcessW
C25_CreateProcessAfterAllSteps ==
    \A t \in DOMAIN pc :
        /\ \A i \in 2..Len(Produced(t)) : Produced(t)[i] => Produced(t)[i - 1]
        /\ "CreateProcessW" \in native[t] => AllProduced(t)
        /\ pc[t] \in {"lock", "call_CreateProcessW", "in_CreateProcessW", "created"}
              => AllProduced(t)
        /\ (Returned(t) /\ ~AllProduced(t)) =>
              /\ outcome[t].run /\ ~outcome[t].res.ok
              /\ "CreateProcessW" \notin native[t]
              /\ handles[t].hProcess = "none"

\* one spawn has called CreateProcessW with everything produced while another
\* has returned an error from a step after the pseudo-console was created
C25_Witness ==
    \E t, u \in DOMAIN pc :
        /\ "CreateProcessW" \in native[t] /\ AllProduced(t)
        /\ Returned(u) /\ ~AllProduced(u) /\ Produced(u)[3]
        /\ ~outcome[u].res.ok

\* thread t is between CREATE_PROCESS_LOCK.lock() and the end of the
\* CreateProcessW call
AroundCreateProcess(t) ==
    pc[t] \in {"call_CreateProcessW", "in_CreateProcessW", "created"}

\* the lock is held exactly by a thread around its CreateProcessW call, all of
\* whose pipes, pseudo-console, attribute list and buffers are produced
LockScope ==
    \A t \in Threads :
        /\ CREATE_PROCESS_LOCK = t => AroundCreateProcess(t) /\ AllProduced(t)
        /\ Returned(t) => CREATE_PROCESS_LOCK # t

\* a step of thread t that produces a pipe, the pseudo-console, the attribute
\* list or an encoded buffer is taken without the lock
ProducedUnlocked ==
    \A t \in Threads :
        Produced(t)' # Produced(t) =>
            CREATE_PROCESS_LOCK # t /\ CREATE_PROCESS_LOCK' # t

\* the lock is taken by the step right before the CreateProcessW call and is
\* free as soon as the call's thread has left it, on failure as on success
ReleasedOnExit ==
    \A t \in Threads :
        /\ (CREATE_PROCESS_LOCK # t /\ CREATE_PROCESS_LOCK' = t) =>
              pc'[t] = "call_CreateProcessW"
        /\ (pc[t] = "in_CreateProcessW" /\ pc'[t] = "returned") =>
              CREATE_PROCESS_LOCK = t /\ CREATE_PROCESS_LOCK' = NoThread
        /\ (pc[t] = "created" /\ pc'[t] = "returned") =>
              CREATE_PROCESS_LOCK = t /\ CREATE_PROCESS_LOCK' = NoThread

\* once no thread is around its CreateProcessW call, whichever way the last
\* one left it, a thread waiting in CREATE_PROCESS_LOCK.lock() can take the lock
LockObtainable ==
    \A u \in Threads :
        (pc[u] = "lock" /\ \A t \in Threads : ~AroundCreateProcess(t)) =>
            ENABLED AcquireLock(u)

\* C24: CREATE_PROCESS_LOCK is held only by a thread around its CreateProcessW
\* call, after that thread's pipes, pseudo-console, attribute list and encoded
\* buffers are all produced and none of them is produced under the lock; it
\* is free again when the call's thread returns, whether CreateProcessW
\* failed or succeeded, so that a thread waiting for the lock can then take it
C24_LockOnlyAroundCreateProcess ==
    /\ [](LockScope /\ LockObtainable)
    /\ [][ProducedUnlocked /\ ReleasedOnExit]_vars_all

\* a thread's CreateProcessW has failed and it has returned the error, and
\* another thread, which was waiting for the lock meanwhile, holds it now
C24_Witness ==
    \E t, u \in Threads :
        /\ Returned(t) /\ "CreateProcessW" \in native[t] /\ ~outcome[t].res.ok
        /\ CREATE_PROCESS_LOCK = u /\ pc[u] = "call_CreateProcessW"

(***************************************************************************)
(* The three encoders spawn_pty calls, each run on its own input.           *)
(***************************************************************************)
EncPrograms == {<<97>>, <<97, NUL>>, <<NUL, 97>>}
EncArgLists ==
    {l \in {<<>>, << <<98>> >>, << <<NUL>> >>, << <<98>>, <<98, NUL>> >>,
            << <<NUL, 98>>, <<98>> >>, << <<>>, <<98>> >>} : Len(l) <= MaxArgs}
EncDirs == {<<>>, <<99>>, <<NUL>>, <<99, NUL, 99>>}

EncInit ==
    /\ program \in EncPrograms
    /\ args \in EncArgLists
    /\ cwd \in {None} \cup {Some(d) : d \in EncDirs}
    /\ maybe_env \in {None} \cup {Some(m) : m \in EnvpMaps}
    /\ cmd_line = NotRun
    /\ envp = NotRun
    /\ dirp = NotRun
    /\ EnvIdle
    /\ SpawnIdle
    /\ ProcIdle
    /\ PosixIdle

\* make_dirp(self.cwd.as_ref()), as spawn_pty calls it
MakeDirp ==
    /\ dirp = NotRun
    /\ dirp' = [run |-> TRUE, res |-> make_dirp(cwd)]
    /\ UNCHANGED <<program, args, cwd, cmd_line>>
    /\ UNCHANGED notCmd

EncNext ==
    \/ MakeCommandLine
    \/ MakeEnvp
    \/ MakeDirp

SpecEnc == EncInit /\ [][EncNext]_vars_all

\* the result r of an encoder is Err(InvalidInput), which carries no buffer,
\* when its input has a nul, and Ok otherwise
RejectsNul(r, has_nul) ==
    r.run => IF has_nul THEN r.res = InvalidInput ELSE r.res.ok

\* C23: make_command_line fails with InvalidInput exactly when the program or
\* an argument holds a nul, make_envp exactly when a key or a value of the
\* map holds one, make_dirp exactly when the working directory holds one; a
\* failed encoder returns no buffer, and without a nul each succeeds
C23_EncodersRejectNul ==
    /\ RejectsNul(cmd_line, HasNul(program) \/ \E i \in 1..Len(args) : HasNul(args[i]))
    /\ RejectsNul(envp, maybe_env.some /\ ~NulFree(maybe_env.v))
    /\ RejectsNul(dirp, cwd.some /\ HasNul(cwd.v))

\* the three encoders have run: the command line was refused for a nul in
\* its second argument only, the environment block for a nul in a value
\* only, and the working directory was encoded
C23_Witness ==
    /\ cmd_line.run /\ cmd_line.res = InvalidInput
    /\ ~HasNul(program) /\ Len(args) = 2 /\ ~HasNul(args[1]) /\ HasNul(args[2])
    /\ envp.run /\ envp.res = InvalidInput
    /\ maybe_env.some /\ \A k \in DOMAIN maybe_env.v : ~HasNul(k)
    /\ dirp.run /\ dirp.res.ok /\ cwd.some

(***************************************************************************)
(* A CommandEnv after env_clear.                                            *)
(***************************************************************************)
\* env_clear has been called
Cleared == \E i \in 1..Len(ops) : ops[i].op = "clear"

\* the operations issued after the last env_clear
RECURSIVE SinceLastClear(_)
SinceLastClear(history) ==
    IF history = <<>> \/ history[Len(history)].op = "clear" THEN <<>>
    ELSE Append(SinceLastClear(SubSeq(history, 1, Len(history) - 1)),
                history[Len(history)])

\* the keys set after the last env_clear and not removed since, with the
\* latest value set for each
SetSinceClear == Replay(EmptyMap, SinceLastClear(ops))

\* every entry of map m was set after the last env_clear: none is inherited
NoneInherited(m) ==
    \A k \in DOMAIN m :
        \E i \in 1..Len(SinceLastClear(ops)) :
            SinceLastClear(ops)[i] = OpSet(k, m[k])

AfterClear ==
    Cleared =>
        /\ env.clear
        /\ \A k \in DOMAIN env.vars : env.vars[k].some
        /\ last.kind = "capture" =>
              /\ last.res = Ok(SetSinceClear)
              /\ NoneInherited(last.res.val)
        /\ last.kind = "capture_if_changed" =>
              /\ last.res = Ok(Some(SetSinceClear))
              /\ NoneInherited(last.res.val.v)

EffectivePath(t) ==
    LET me == locals[t].maybe_env.val
        e == IF me.some THEN me.v ELSE ambient
    IN IF PATH \in DOMAIN e THEN Some(e[PATH]) ELSE None

\* the program of thread t is in a directory of the PATH in effect
InEffectivePath(t) ==
    /\ EffectivePath(t).some
    /\ lookup(split_paths(EffectivePath(t).v, 1, <<>>), 1, command[t].program).some

\* C21: a spawn whose program is in no directory of the PATH in effect
\* creates no child process and returns an error
C21_LookupFailure ==
    \A t \in DOMAIN pc :
        (locals[t].maybe_env.run /\ ~InEffectivePath(t)) =>
            /\ handles[t].hProcess = "none"
            /\ Returned(t) => ~outcome[t].res.ok

(***************************************************************************)
(* The POSIX session of tests::test_cat: the test, the terminal between     *)
(* the master the test holds and the slave the child holds, and the child   *)
(* from fork to cat.  Bytes are numbers.                                    *)
(***************************************************************************)
ETX == 3
LF == 10
CR == 13
\* "hello cat\n"
HelloCat == <<104, 101, 108, 108, 111, 32, 99, 97, 116, LF>>
\* "^C"
CaretC == <<94, 67>>

Contains(bytes, b) == \E i \in 1..Len(bytes) : bytes[i] = b

\* the index of the last / first LF of bytes, 0 when there is none
LastLF(bytes) ==
    IF Contains(bytes, LF)
    THEN CHOOSE i \in 1..Len(bytes) :
             bytes[i] = LF /\ \A j \in (i + 1)..Len(bytes) : bytes[j] # LF
    ELSE 0
FirstLF(bytes) ==
    IF Contains(bytes, LF)
    THEN CHOOSE i \in 1..Len(bytes) :
             bytes[i] = LF /\ \A j \in 1..(i - 1) : bytes[j] # LF
    ELSE 0

\* LineWriter::write: what goes out is everything up to the last newline,
\* the rest is held back
LineWriter_write(held_back, bytes) ==
    LET all == held_back \o bytes
        n == LastLF(all)
    IN [out |-> SubSeq(all, 1, n), held_back |-> SubSeq(all, n + 1, Len(all))]

\* writer.flush(): the held-back bytes go out
flush(held_back) == [out |-> held_back, held_back |-> <<>>]

\* output post-processing of the terminal (ONLCR): LF becomes CR LF
RECURSIVE onlcr(_)
onlcr(bytes) ==
    IF bytes = <<>> THEN <<>>
    ELSE (IF Head(bytes) = LF THEN <<CR, LF>> ELSE <<Head(bytes)>>) \o onlcr(Tail(bytes))

\* the child has made the slave its controlling terminal: it is the
\* foreground process group the terminal signals
HasControllingTerminal == cat.pc \in {"has_ctty", "cat_read", "cat_write"}

ChildAlive == cat.pc \in {"forked", "session_leader", "has_ctty", "cat_read", "cat_write"}

PosixInit ==
    /\ CmdIdle
    /\ EnvIdle
    /\ EnvpIdle
    /\ SpawnIdle
    /\ ProcIdle
    /\ PosixIdle

\* PtyProcess::new(Command::new("cat")): the PTY pair is allocated and the
\* child forked; the parent goes on with the master and the child's pid
Test_new ==
    /\ test_pc = "new"
    /\ test_pc' = "write_line"
    /\ cat' = [cat EXCEPT !.pc = "forked", !.status = "running"]
    /\ UNCHANGED <<writer, buf, master_in, ldisc_line, slave_in, master_out,
                   sent_when, wait_status, notPosix>>

\* writer.write(b"hello cat\n")
Test_write_line ==
    /\ test_pc = "write_line"
    /\ LET w == LineWriter_write(writer, HelloCat) IN
       /\ writer' = w.held_back
       /\ master_in' = master_in \o w.out
    /\ test_pc' = "read_line"
    /\ UNCHANGED <<buf, ldisc_line, slave_in, master_out, cat, sent_when,
                   wait_status, notPosix>>

\* reader.read_line(&mut buf) returns once a newline has arrived;
\* assert_eq!(buf, "hello cat\r\n")
Test_read_line ==
    /\ test_pc = "read_line"
    /\ Contains(master_out, LF)
    /\ LET n == FirstLF(master_out) IN
       /\ buf' = Bound(SubSeq(master_out, 1, n))
       /\ master_out' = SubSeq(master_out, n + 1, Len(master_out))
       /\ test_pc' = IF SubSeq(master_out, 1, n) = onlcr(HelloCat)
                     THEN "sleep" ELSE "failed"
    /\ UNCHANGED <<writer, master_in, ldisc_line, slave_in, cat, sent_when,
                   wait_status, notPosix>>

\* thread::sleep(100 ms): time passes, nothing is waited for
Test_sleep ==
    /\ test_pc = "sleep"
    /\ test_pc' = "write_ctrl_c"
    /\ UNCHANGED <<writer, buf, master_in, ldisc_line, slave_in, master_out, cat,
                   sent_when, wait_status, notPosix>>

\* writer.write_all(&[3])
Test_write_ctrl_c ==
    /\ test_pc = "write_ctrl_c"
    /\ LET w == LineWriter_write(writer, <<ETX>>) IN
       /\ writer' = w.held_back
       /\ master_in' = master_in \o w.out
    /\ test_pc' = "flush"
    /\ UNCHANGED <<buf, ldisc_line, slave_in, master_out, cat, sent_when,
                   wait_status, notPosix>>

\* writer.flush()
Test_flush ==
    /\ test_pc = "flush"
    /\ LET w == flush(writer) IN
       /\ writer' = w.held_back
       /\ master_in' = master_in \o w.out
    /\ sent_when' = Bound(cat.pc)
    /\ test_pc' = "waitpid"
    /\ UNCHANGED <<buf, ldisc_line, slave_in, master_out, cat, wait_status, notPosix>>

\* wait::waitpid(child_pid, None) returns once the child has terminated;
\* assert_eq!(should, ..)
Test_waitpid ==
    /\ test_pc = "waitpid"
    /\ cat.pc = "terminated"
    /\ wait_status' = Bound(cat.status)
    /\ cat' = [cat EXCEPT !.pc = "reaped"]
    /\ test_pc' = IF cat.status = "Signaled(SIGINT)" THEN "done" ELSE "failed"
    /\ UNCHANGED <<writer, buf, master_in, ldisc_line, slave_in, master_out,
                   sent_when, notPosix>>

\* the terminal takes the next byte written to the master (ICANON, ECHO,
\* ECHOCTL, ISIG set): the interrupt character signals the foreground
\* process group, if the terminal has one, and discards the pending line; a
\* newline completes the line; every byte is echoed
Terminal_input ==
    /\ master_in # <<>>
    /\ LET b == Head(master_in) IN
       /\ master_in' = Tail(master_in)
       /\ IF b = ETX
          THEN /\ ldisc_line' = <<>>
               /\ slave_in' = slave_in
               /\ master_out' = master_out \o CaretC
               /\ cat' = IF HasControllingTerminal
                         THEN [cat EXCEPT !.pending = {"SIGINT"}]
                         ELSE cat
          ELSE IF b = LF
          THEN /\ ldisc_line' = <<>>
               /\ slave_in' = Append(slave_in, Append(ldisc_line, LF))
               /\ master_out' = master_out \o <<CR, LF>>
               /\ cat' = cat
          ELSE /\ ldisc_line' = Append(ldisc_line, b)
               /\ slave_in' = slave_in
               /\ master_out' = Append(master_out, b)
               /\ cat' = cat
    /\ UNCHANGED <<test_pc, writer, buf, sent_when, wait_status, notPosix>>

\* in the child: setsid()
Child_setsid ==
    /\ cat.pc = "forked"
    /\ cat' = [cat EXCEPT !.pc = "session_leader"]
    /\ UNCHANGED <<test_pc, writer, buf, master_in, ldisc_line, slave_in,
                   master_out, sent_when, wait_status, notPosix>>

\* in the child: the slave becomes the controlling terminal and the
\* standard input, output and error
Child_attach_slave ==
    /\ cat.pc = "session_leader"
    /\ cat' = [cat EXCEPT !.pc = "has_ctty"]
    /\ UNCHANGED <<test_pc, writer, buf, master_in, ldisc_line, slave_in,
                   master_out, sent_when, wait_status, notPosix>>

\* in the child: exec of cat
Child_exec ==
    /\ cat.pc = "has_ctty"
    /\ cat' = [cat EXCEPT !.pc = "cat_read"]
    /\ UNCHANGED <<test_pc, writer, buf, master_in, ldisc_line, slave_in,
                   master_out, sent_when, wait_status, notPosix>>

\* cat reads a line from its standard input
Cat_read ==
    /\ cat.pc = "cat_read"
    /\ slave_in # <<>>
    /\ cat' = [cat EXCEPT !.pc = "cat_write", !.line = Head(slave_in)]
    /\ slave_in' = Tail(slave_in)
    /\ UNCHANGED <<test_pc, writer, buf, master_in, ldisc_line, master_out,
                   sent_when, wait_status, notPosix>>

\* cat writes the line to its standard output
Cat_write ==
    /\ cat.pc = "cat_write"
    /\ master_out' = master_out \o onlcr(cat.line)
    /\ cat' = [cat EXCEPT !.pc = "cat_read", !.line = <<>>]
    /\ UNCHANGED <<test_pc, writer, buf, master_in, ldisc_line, slave_in,
                   sent_when, wait_status, notPosix>>

\* the pending SIGINT is delivered: its default action terminates the child
Child_signalled ==
    /\ ChildAlive
    /\ "SIGINT" \in cat.pending
    /\ cat' = [cat EXCEPT !.pc = "terminated", !.pending = {},
                          !.status = "Signaled(SIGINT)"]
    /\ UNCHANGED <<test_pc, writer, buf, master_in, ldisc_line, slave_in,
                   master_out, sent_when, wait_status, notPosix>>

TestNext ==
    \/ Test_new
    \/ Test_write_line
    \/ Test_read_line
    \/ Test_sleep
    \/ Test_write_ctrl_c
    \/ Test_flush
    \/ Test_waitpid

ChildNext ==
    \/ Child_setsid
    \/ Child_attach_slave
    \/ Child_exec
    \/ Cat_read
    \/ Cat_write

PosixNext ==
    \/ TestNext
    \/ Terminal_input
    \/ ChildNext
    \/ Child_signalled

\* the test thread, the terminal and the child each go on while they can,
\* and a pending signal is delivered
SpecPosix ==
    /\ PosixInit
    /\ [][PosixNext]_vars_all
    /\ WF_vars_all(TestNext)
    /\ WF_vars_all(Terminal_input)
    /\ WF_vars_all(ChildNext)
    /\ WF_vars_all(Child_signalled)

\* the written line has come back through the terminal
Echoed == buf = Bound(onlcr(HelloCat))

\* the interrupt byte has been written and flushed
InterruptFlushed == test_pc \in {"waitpid", "done", "failed"} /\ sent_when.run

\* waitpid has returned "terminated by SIGINT"
ObservedSigint == wait_status = Bound("Signaled(SIGINT)")

\* waitpid returns nothing but "terminated by SIGINT"
OnlySigint == wait_status.run => ObservedSigint

\* C22 as stated: once the line has been echoed back, the interrupt byte
\* written and flushed leads to the child's termination, which waitpid
\* reports as "terminated by SIGINT" and as nothing else
C22_InterruptKillsCat ==
    /\ []OnlySigint
    /\ (Echoed /\ InterruptFlushed) ~> ObservedSigint

\* the same for an interrupt byte flushed once the child has made the
\* terminal its controlling terminal: this holds
InterruptKillsAttachedCat ==
    /\ []OnlySigint
    /\ (Echoed /\ InterruptFlushed
          /\ sent_when.val \in {"has_ctty", "cat_read", "cat_write"})
           ~> ObservedSigint

=============================================================================
